---- MODULE Spec2Model ----
(***************************************************************************)
(* Model of storage/redis/redis.go: the redis storage driver of the        *)
(* chihaya tracker.  The driver's own state is the connection pool (DS)    *)
(* and the transactions (Tx); the redis server and the redigo client       *)
(* library are the environment, modelled by what the driver observes of    *)
(* them: replies, error replies and I/O failures.                          *)
(***************************************************************************)
EXTENDS Integers, Sequences, FiniteSets, TLC

VARIABLES store, idle, tx, last, panicked, out

vars == <<store, idle, tx, last, panicked, out>>

----------------------------------------------------------------------------
(* Bounds and configuration                                                *)

NumTx == 1          \* transactions in use at one time
MaxPending == 2     \* commands buffered on one connection before a flush
MaxDeviation == 1   \* key families of the initial store that differ from BaseStore
MaxIdle == 1        \* conf.MaxIdleConn

Prefix == "chihaya:"        \* conf.Prefix
Passkeys == {"abc123"}
Infohashes == {"T1"}
PeerIDs == {"P1"}

TxIds == 1..NumTx

NoErr == "nil"
ErrTxDone == "storage.ErrTxDone"
ErrIO == "io error"
ErrReply == "redis error reply"
ErrDial == "dial error"
ErrScan == "scan error"
ErrClosed == "connection closed"
ErrPanic == "panic: redis: transaction closed twice"

Nil == [nil |-> TRUE]

----------------------------------------------------------------------------
(* Keys and records of the store                                           *)

UserKey(passkey) == <<Prefix, "User:", passkey>>
TorrentKey(infohash) == <<Prefix, "Torrent:", infohash>>
WhitelistKey(peerID) == <<Prefix, "Whitelist:", peerID>>
SeedersKey(infohash) == <<Prefix, "Torrent:", infohash, ":Seeders">>
LeechersKey(infohash) == <<Prefix, "Torrent:", infohash, ":Leechers">>

HashKeys == {UserKey(u) : u \in Passkeys} \cup {TorrentKey(i) : i \in Infohashes}
SetKeys == {SeedersKey(i) : i \in Infohashes} \cup {LeechersKey(i) : i \in Infohashes}
StringKeys == {WhitelistKey(p) : p \in PeerIDs}

\* A redis hash is a set of <<field, value>> pairs with distinct fields; the
\* empty hash is the absent key.  Values are strings.
HField(h, f) == (CHOOSE p \in h : p[1] = f)[2]
HHas(h, f) == \E p \in h : p[1] = f
HSet(h, f, v) == {p \in h : p[1] # f} \cup {<<f, v>>}

\* strconv on the decimal strings the model uses; anything else fails to parse.
Numerals == {"0", "1", "2"}
ParseInt(s) == CASE s = "0" -> 0 [] s = "1" -> 1 [] s = "2" -> 2

UserIntFields == {"Slots", "SlotsUsed"}
TorrentIntFields == {"Status"}

\* redis.ScanStruct: fields of the reply are converted to the struct's field
\* types; a value that does not parse is an error; missing fields stay zero.
ScanFails(h, intFields) == \E p \in h : p[1] \in intFields /\ p[2] \notin Numerals
ScanInt(h, f) == IF HHas(h, f) THEN ParseInt(HField(h, f)) ELSE 0
ScanStr(h, f) == IF HHas(h, f) THEN HField(h, f) ELSE ""
ScanUser(h) == [Passkey |-> ScanStr(h, "Passkey"), Slots |-> ScanInt(h, "Slots"),
                SlotsUsed |-> ScanInt(h, "SlotsUsed")]
ScanTorrent(h) == [Infohash |-> ScanStr(h, "Infohash"), Status |-> ScanInt(h, "Status")]

UserHash(passkey, slots, used) ==
    {<<"Passkey", passkey>>, <<"Slots", slots>>, <<"SlotsUsed", used>>}
TorrentHash(infohash, status) == {<<"Infohash", infohash>>, <<"Status", status>>}

----------------------------------------------------------------------------
(* The redis server: commands, MULTI/EXEC queueing                         *)

Cmd(name, args) == [name |-> name, args |-> args]
MULTI == Cmd(<<"MULTI">>, <<>>)
EXEC == Cmd(<<"EXEC">>, <<>>)
DISCARD == Cmd(<<"DISCARD">>, <<>>)

\* The command table: a command name is one word; the number is its arity.
Arity(w) == CASE w = "MULTI" -> 0 [] w = "EXEC" -> 0 [] w = "DISCARD" -> 0
              [] w = "HSET" -> 3 [] w = "SADD" -> 2 [] w = "SREM" -> 2
              [] OTHER -> -1
Known(cmd) == /\ Len(cmd.name) = 1
              /\ Arity(cmd.name[1]) = Len(cmd.args)

\* The effect of one data command on the keyspace.
Apply(s, cmd) ==
    LET w == cmd.name[1]
        k == cmd.args[1]
    IN  CASE w = "HSET" /\ k \in HashKeys ->
                [s EXCEPT !.hash[k] = HSet(@, cmd.args[2], cmd.args[3])]
          [] w = "SADD" /\ k \in SetKeys -> [s EXCEPT !.set[k] = @ \cup {cmd.args[2]}]
          [] w = "SREM" /\ k \in SetKeys -> [s EXCEPT !.set[k] = @ \ {cmd.args[2]}]
          [] OTHER -> s

RECURSIVE ApplyAll(_, _)
ApplyAll(s, q) == IF q = <<>> THEN s ELSE ApplyAll(Apply(s, Head(q)), Tail(q))

\* One command arriving at the server on a connection whose server-side state
\* is srv: [store, multi, dirty, queue, err]; err records an error reply.
ServerStep(srv, cmd) ==
    IF ~Known(cmd)
    THEN [srv EXCEPT !.err = TRUE, !.dirty = srv.dirty \/ srv.multi]
    ELSE CASE cmd = MULTI ->
                IF srv.multi THEN [srv EXCEPT !.err = TRUE]
                ELSE [srv EXCEPT !.multi = TRUE, !.dirty = FALSE, !.queue = <<>>]
           [] cmd = EXEC ->
                IF ~srv.multi THEN [srv EXCEPT !.err = TRUE]
                ELSE IF srv.dirty
                     THEN [srv EXCEPT !.err = TRUE, !.multi = FALSE, !.dirty = FALSE,
                                      !.queue = <<>>]
                     ELSE [srv EXCEPT !.store = ApplyAll(srv.store, srv.queue),
                                      !.multi = FALSE, !.queue = <<>>]
           [] cmd = DISCARD ->
                IF ~srv.multi THEN [srv EXCEPT !.err = TRUE]
                ELSE [srv EXCEPT !.multi = FALSE, !.dirty = FALSE, !.queue = <<>>]
           [] OTHER ->
                IF srv.multi THEN [srv EXCEPT !.queue = Append(@, cmd)]
                ELSE [srv EXCEPT !.store = Apply(srv.store, cmd)]

RECURSIVE ServerRun(_, _)
ServerRun(srv, cmds) ==
    IF cmds = <<>> THEN srv ELSE ServerRun(ServerStep(srv, Head(cmds)), Tail(cmds))

Fresh(s) == [store |-> s, multi |-> FALSE, dirty |-> FALSE, queue |-> <<>>, err |-> FALSE]

----------------------------------------------------------------------------
(* redigo: connections and the pool                                        *)

\* A connection: err is redigo's fatal-error state; multi is the MULTI state
\* the pool tracks from the command names; pending is the output buffer,
\* written by Send and flushed by Do; dead says that the peer has dropped the
\* connection while it sat idle, which is what the PING of TestOnBorrow finds.
NewConn == [err |-> FALSE, multi |-> FALSE, pending |-> <<>>, dead |-> FALSE]

\* A TestOnBorrow that lets every idle connection pass.
testOnBorrowNoProbe(c) == NoErr

\* TestOnBorrow: PING on an idle connection fails iff the connection is dead.
testOnBorrow(c) == IF c.dead THEN ErrIO ELSE NoErr

\* The idle connections the pool tries, front first, until one passes.
RECURSIVE Borrow(_)
Borrow(idl) ==
    IF idl = <<>> THEN [found |-> FALSE, c |-> NewConn, idle |-> <<>>]
    ELSE IF testOnBorrow(Head(idl)) = NoErr
         THEN [found |-> TRUE, c |-> Head(idl), idle |-> Tail(idl)]
         ELSE Borrow(Tail(idl))

\* Pool.Get: an idle connection that passes the probe (those that fail are
\* closed), else Dial; dial is "ok" or "fail", and a failed Dial yields
\* redigo's errorConnection, on which every call fails: err is then the dial
\* error.
PoolGet(dial) ==
    LET b == Borrow(idle) IN
    IF b.found THEN [c |-> b.c, idle |-> b.idle, err |-> NoErr]
    ELSE IF dial = "ok" THEN [c |-> NewConn, idle |-> <<>>, err |-> NoErr]
    ELSE [c |-> [NewConn EXCEPT !.err = TRUE], idle |-> <<>>, err |-> ErrDial]

\* How the Get that leaves the idle list idl obtained its connection: "idle"
\* (the first idle connection passed the probe), "probe failed" (an idle
\* connection failed the probe and was closed) or "dial" (none was idle).
Source(idl) ==
    IF idle = <<>> THEN "dial"
    ELSE IF Len(idl) = Len(idle) - 1 /\ testOnBorrow(Head(idle)) = NoErr THEN "idle"
    ELSE "probe failed"

\* The number of connections that the Get with result g has taken out of the
\* pool: an errorConnection is no connection.
Acquired(g) == IF g.err = NoErr THEN 1 ELSE 0

\* Conn.Send: buffers the command; fails on a connection in the fatal-error
\* state.
Send(c, cmd) ==
    IF c.err THEN [conn |-> c, err |-> ErrIO]
    ELSE [conn |-> [c EXCEPT !.pending = Append(@, cmd), !.multi = @ \/ cmd = MULTI],
          err |-> NoErr]

\* Conn.Do of a writing command: flushes pending and cmd, reads every reply
\* and returns the first error reply.  io is what the network does: "ok",
\* "lost_before" (the request never reaches the server) or "lost_after" (the
\* server ran the request and the replies were lost).
Do(c, s, cmd, io) ==
    IF c.err THEN [conn |-> c, store |-> s, err |-> ErrIO]
    ELSE LET r == ServerRun(Fresh(s), Append(c.pending, cmd))
             broken == [c EXCEPT !.err = TRUE, !.pending = <<>>, !.multi = FALSE]
             flushed == [c EXCEPT !.pending = <<>>, !.multi = r.multi]
         IN  CASE io = "lost_before" -> [conn |-> broken, store |-> s, err |-> ErrIO]
               [] io = "lost_after" -> [conn |-> broken, store |-> r.store, err |-> ErrIO]
               [] OTHER -> [conn |-> flushed, store |-> r.store,
                            err |-> IF r.err THEN ErrReply ELSE NoErr]

\* Close of a pooled connection: DISCARD if the connection is in MULTI state,
\* flush, then back to the front of the idle list; a connection with a fatal
\* error, or whose flush fails (io = "fail"), is closed instead; the pool
\* keeps at most MaxIdle idle connections and closes the oldest beyond that.
PoolClose(c, idl, s, io) ==
    LET cmds == IF c.multi THEN Append(c.pending, DISCARD) ELSE c.pending
        r == ServerRun(Fresh(s), cmds)
        all == <<NewConn>> \o idl
    IN  IF c.err \/ (io = "fail" /\ cmds # <<>>)
        THEN [idle |-> idl, store |-> s]
        ELSE [idle |-> IF Len(all) > MaxIdle THEN SubSeq(all, 1, MaxIdle) ELSE all,
              store |-> r.store]

----------------------------------------------------------------------------
(* The driver: DS and Tx                                                   *)

\* What the last call returned: op, the transaction and arguments (a tuple)
\* it was called on, and the returned entity, found flag and error.  For a
\* Commit or Rollback, prev is the call made on the same transaction
\* immediately before, if that was a mutation that returned nil or a Commit
\* whose EXEC failed.
Ret(op, t, arg, val, found, err) ==
    [op |-> op, tx |-> t, arg |-> arg, val |-> val, found |-> found, err |-> err,
     prev |-> [op |-> "none", arg |-> <<>>]]

SwarmOps == {"NewLeecher", "RmLeecher", "NewSeeder", "RmSeeder"}
MutationOps == SwarmOps \cup {"Snatch", "Unprune", "IncrementSlots", "DecrementSlots"}

\* out is the number of connections that are checked out of the pool: taken
\* by Get and not yet given back by Close.
\*
\* A Tx: begun (the object exists), done and Conn as in the struct; held says
\* whether the pooled connection handle still holds its connection (Close
\* clears it).
TxInit == [begun |-> FALSE, done |-> FALSE, held |-> FALSE, conn |-> NewConn]

\* The return of a closing call (Commit, Rollback) on t.
CloseRet(op, t, err) ==
    [Ret(op, t, <<>>, Nil, FALSE, err) EXCEPT
        !.prev = IF last.tx = t /\ last.op \in MutationOps /\ last.err = NoErr
                 THEN [op |-> last.op, arg |-> last.arg]
                 ELSE IF last.tx = t /\ last.op = "Commit" /\ last.err \in {ErrIO, ErrReply}
                      THEN [op |-> "Commit", arg |-> <<>>]
                      ELSE [op |-> "none", arg |-> <<>>]]

UserHashes(u) == {{}, UserHash(u, "1", "0"), UserHash(u, "1", "1"), UserHash(u, "x", "0")}
TorrentHashes(i) == {{}, TorrentHash(i, "1"), TorrentHash(i, "x")}

HashMaps ==
    {h \in [HashKeys -> UNION ({UserHashes(u) : u \in Passkeys}
                               \cup {TorrentHashes(i) : i \in Infohashes})] :
        /\ \A u \in Passkeys : h[UserKey(u)] \in UserHashes(u)
        /\ \A i \in Infohashes : h[TorrentKey(i)] \in TorrentHashes(i)}
SetMaps ==
    {s \in [SetKeys -> SUBSET PeerIDs] :
        \A i \in Infohashes : s[SeedersKey(i)] \cap s[LeechersKey(i)] = {}}
AllStores == {[hash |-> h, set |-> s, str |-> w] :
                h \in HashMaps, s \in SetMaps, w \in [StringKeys -> BOOLEAN]}

\* A store with a well-formed record for every user and torrent, empty
\* swarms and an empty whitelist.
BaseStore ==
    [hash |-> [k \in HashKeys |-> IF k[2] = "User:" THEN UserHash(k[3], "1", "0")
                                  ELSE TorrentHash(k[3], "1")],
     set |-> [k \in SetKeys |-> {}],
     str |-> [k \in StringKeys |-> FALSE]]

\* The number of records, swarms and whitelist entries in which s differs
\* from BaseStore.
Deviation(s) ==
    Cardinality({k \in HashKeys : s.hash[k] # BaseStore.hash[k]})
    + Cardinality({i \in Infohashes : s.set[SeedersKey(i)] \cup s.set[LeechersKey(i)] # {}})
    + Cardinality({k \in StringKeys : s.str[k]})

\* The stores a behaviour may start from.  No call of the driver touches more
\* than one key, so the stores are those near BaseStore.
Stores == {s \in AllStores : Deviation(s) <= MaxDeviation}

\* The peer drops an idle connection.
Drop(i) ==
    /\ ~panicked
    /\ i \in 1..Len(idle)
    /\ ~idle[i].dead
    /\ idle' = [idle EXCEPT ![i].dead = TRUE]
    /\ last' = Ret("Drop", 0, <<>>, Nil, FALSE, NoErr)
    /\ UNCHANGED <<store, tx, panicked, out>>

\* driver.New: an empty pool; the store holds whatever was provisioned.
Init ==
    /\ store \in Stores
    /\ idle = <<>>
    /\ tx = [t \in TxIds |-> TxInit]
    /\ last = Ret("New", 0, <<>>, Nil, FALSE, NoErr)
    /\ panicked = FALSE
    /\ out = 0

\* The returns of FindUser, given the error and reply of HGETALL.
FindUserRet(passkey, err, reply) ==
    IF err # NoErr THEN Ret("FindUser", 0, <<passkey>>, Nil, TRUE, err)
    ELSE IF reply = {} THEN Ret("FindUser", 0, <<passkey>>, Nil, FALSE, NoErr)
    ELSE IF ScanFails(reply, UserIntFields)
         THEN Ret("FindUser", 0, <<passkey>>, Nil, TRUE, ErrScan)
         ELSE Ret("FindUser", 0, <<passkey>>, ScanUser(reply), TRUE, NoErr)

\* The returns of FindTorrent, given the error and reply of HGETALL.
FindTorrentRet(infohash, err, reply) ==
    IF err # NoErr THEN Ret("FindTorrent", 0, <<infohash>>, Nil, FALSE, err)
    ELSE IF reply = {} THEN Ret("FindTorrent", 0, <<infohash>>, Nil, FALSE, NoErr)
    ELSE IF ScanFails(reply, TorrentIntFields)
         THEN Ret("FindTorrent", 0, <<infohash>>, Nil, TRUE, ErrScan)
         ELSE Ret("FindTorrent", 0, <<infohash>>, ScanTorrent(reply), TRUE, NoErr)

\* The returns of a ClientWhitelisted that takes a key that does not exist
\* for an error.
ClientWhitelistedRetAbsentIsError(peerID, err, exists) ==
    IF err # NoErr THEN Ret("ClientWhitelisted", 0, <<peerID>>, Nil, FALSE, err)
    ELSE IF exists THEN Ret("ClientWhitelisted", 0, <<peerID>>, Nil, TRUE, NoErr)
    ELSE Ret("ClientWhitelisted", 0, <<peerID>>, Nil, FALSE, ErrReply)

\* The returns of ClientWhitelisted, given the error and reply of EXISTS.
ClientWhitelistedRet(peerID, err, exists) ==
    IF err # NoErr THEN Ret("ClientWhitelisted", 0, <<peerID>>, Nil, FALSE, err)
    ELSE Ret("ClientWhitelisted", 0, <<peerID>>, Nil, exists, NoErr)

\* conn := ds.Get(); defer conn.Close(); conn.Do(<a reading command>).  The
\* error of the Do: the dial error on an errorConnection, an I/O error when
\* the network fails (io = "fail").
ReadErr(g, io) == IF g.err # NoErr THEN g.err ELSE IF io = "fail" THEN ErrIO ELSE NoErr

\* A lookup that returns without closing its connection.
ReadCloseForgotten(g, io) == [idle |-> g.idle, released |-> 0]

\* The deferred Close: the idle list after it and the number of connections
\* it has released.  An errorConnection has nothing to return; a Do that
\* failed leaves the connection in the fatal-error state, and Close then
\* closes it instead of returning it to the pool.
ReadClose(g, io) ==
    IF g.err # NoErr THEN [idle |-> g.idle, released |-> 0]
    ELSE [idle |-> PoolClose([g.c EXCEPT !.err = (io = "fail")], g.idle, store, "ok").idle,
          released |-> 1]

\* The outcomes of Get, Do and Close in a lookup: the error of the Do, the
\* idle list left behind and the connections then checked out.
ReadOutcomes ==
    {[err |-> ReadErr(PoolGet(dial), io),
      idle |-> ReadClose(PoolGet(dial), io).idle,
      out |-> out + Acquired(PoolGet(dial)) - ReadClose(PoolGet(dial), io).released] :
        dial \in {"ok", "fail"}, io \in {"ok", "fail"}}

FindUser(passkey) ==
    /\ ~panicked
    /\ \E r \in ReadOutcomes :
        /\ last' = FindUserRet(passkey, r.err, store.hash[UserKey(passkey)])
        /\ idle' = r.idle
        /\ out' = r.out
    /\ UNCHANGED <<store, tx, panicked>>

FindTorrent(infohash) ==
    /\ ~panicked
    /\ \E r \in ReadOutcomes :
        /\ last' = FindTorrentRet(infohash, r.err, store.hash[TorrentKey(infohash)])
        /\ idle' = r.idle
        /\ out' = r.out
    /\ UNCHANGED <<store, tx, panicked>>

ClientWhitelisted(peerID) ==
    /\ ~panicked
    /\ \E r \in ReadOutcomes :
        /\ last' = ClientWhitelistedRet(peerID, r.err, store.str[WhitelistKey(peerID)])
        /\ idle' = r.idle
        /\ out' = r.out
    /\ UNCHANGED <<store, tx, panicked>>

\* Begin: Get, then Send("MULTI"); the Tx exists only if the Send succeeded,
\* and Send fails on an errorConnection, with the dial error.  The error
\* return does not close what Get has returned.  The new Tx takes a slot that
\* holds no transaction, or a closed one that its owner has let go of; the
\* return records how Get obtained the connection.
Begin(t) ==
    /\ ~panicked
    /\ ~tx[t].begun \/ tx[t].done
    /\ \E dial \in {"ok", "fail"} :
        LET g == PoolGet(dial)
            s == Send(g.c, MULTI)
        IN  /\ idle' = g.idle
            /\ out' = out + Acquired(g)
            /\ IF s.err # NoErr
               THEN /\ last' = Ret("Begin", 0, <<>>, Nil, FALSE,
                                   IF g.err # NoErr THEN g.err ELSE s.err)
                    /\ tx' = tx
               ELSE /\ last' = Ret("Begin", t, <<Source(g.idle)>>, Nil, FALSE, NoErr)
                    /\ tx' = [tx EXCEPT ![t] = [TxInit EXCEPT !.begun = TRUE, !.held = TRUE,
                                                              !.conn = s.conn]]
    /\ UNCHANGED <<store, panicked>>

\* close that closes the connection and leaves done as it is.
closeForgetsDone(t, c, s, io) ==
    LET r == IF tx[t].held THEN PoolClose(c, idle, s, io)
             ELSE [idle |-> idle, store |-> s]
    IN  /\ tx' = [tx EXCEPT ![t].held = FALSE, ![t].conn = NewConn]
        /\ idle' = r.idle
        /\ store' = r.store
        /\ out' = IF tx[t].held THEN out - 1 ELSE out
        /\ UNCHANGED panicked

\* tx.close(), with the transaction's connection in state c and the store in
\* state s: panics if done, else marks the transaction done and closes its
\* connection.
close(t, c, s, io) ==
    IF tx[t].done
    THEN /\ panicked' = TRUE
         /\ tx' = [tx EXCEPT ![t].conn = c]
         /\ store' = s
         /\ UNCHANGED <<idle, out>>
    ELSE LET r == IF tx[t].held THEN PoolClose(c, idle, s, io)
                  ELSE [idle |-> idle, store |-> s]
         IN  /\ tx' = [tx EXCEPT ![t].done = TRUE, ![t].held = FALSE, ![t].conn = NewConn]
             /\ idle' = r.idle
             /\ store' = r.store
             /\ out' = IF tx[t].held THEN out - 1 ELSE out
             /\ UNCHANGED panicked

\* Do on the transaction's connection handle; a handle already closed fails.
TxDo(t, cmd, io) ==
    IF tx[t].held THEN Do(tx[t].conn, store, cmd, io)
    ELSE [conn |-> tx[t].conn, store |-> store, err |-> ErrClosed]

\* Send on the transaction's connection handle; a handle already closed fails.
TxSend(t, cmd) ==
    IF tx[t].held THEN Send(tx[t].conn, cmd)
    ELSE [conn |-> tx[t].conn, err |-> ErrClosed]

\* Commit that closes the transaction when EXEC fails, too.
CommitClosesOnError(t) ==
    /\ ~panicked
    /\ tx[t].begun
    /\ IF tx[t].done
       THEN /\ last' = CloseRet("Commit", t, ErrTxDone)
            /\ UNCHANGED <<store, idle, tx, panicked, out>>
       ELSE \E d \in {TxDo(t, EXEC, io) : io \in {"ok", "lost_before", "lost_after"}} :
              \E cio \in {"ok", "fail"} :
                   /\ close(t, d.conn, d.store, cio)
                   /\ last' = CloseRet("Commit", t, IF panicked' THEN ErrPanic ELSE d.err)

Commit(t) ==
    /\ ~panicked
    /\ tx[t].begun
    /\ IF tx[t].done
       THEN /\ last' = CloseRet("Commit", t, ErrTxDone)
            /\ UNCHANGED <<store, idle, tx, panicked, out>>
       ELSE \E d \in {TxDo(t, EXEC, io) : io \in {"ok", "lost_before", "lost_after"}} :
              IF d.err # NoErr
              THEN /\ last' = CloseRet("Commit", t, d.err)
                   /\ tx' = [tx EXCEPT ![t].conn = d.conn]
                   /\ store' = d.store
                   /\ UNCHANGED <<idle, panicked, out>>
              ELSE \E cio \in {"ok", "fail"} :
                   /\ close(t, d.conn, d.store, cio)
                   /\ last' = CloseRet("Commit", t, IF panicked' THEN ErrPanic ELSE NoErr)

\* Rollback that returns nil on an open transaction without closing it.
RollbackNoClose(t) ==
    /\ ~panicked
    /\ tx[t].begun
    /\ last' = CloseRet("Rollback", t, IF tx[t].done THEN ErrTxDone ELSE NoErr)
    /\ UNCHANGED <<store, idle, tx, panicked, out>>

\* Rollback without the check of done.
RollbackNoCheck(t) ==
    /\ ~panicked
    /\ tx[t].begun
    /\ \E cio \in {"ok", "fail"} :
          /\ close(t, tx[t].conn, store, cio)
          /\ last' = CloseRet("Rollback", t, IF panicked' THEN ErrPanic ELSE NoErr)

Rollback(t) ==
    /\ ~panicked
    /\ tx[t].begun
    /\ IF tx[t].done
       THEN /\ last' = CloseRet("Rollback", t, ErrTxDone)
            /\ UNCHANGED <<store, idle, tx, panicked, out>>
       ELSE \E cio \in {"ok", "fail"} :
              /\ close(t, tx[t].conn, store, cio)
              /\ last' = CloseRet("Rollback", t, IF panicked' THEN ErrPanic ELSE NoErr)

\* Unprune as it would be with the command name and its arguments apart.
UnpruneCmdWellFormed(infohash) ==
    Cmd(<<"HSET">>, <<TorrentKey(infohash), "Status", "0">>)

\* The command Unprune sends: the whole text is passed as the command name,
\* with no arguments.
UnpruneCmd(infohash) == Cmd(<<"HSET ", TorrentKey(infohash), " Status 0">>, <<>>)

\* The output buffer of the transaction's connection has room for a command.
Room(t) == Len(tx[t].conn.pending) < MaxPending

\* A mutation that returns without sending anything: ErrTxDone on a closed
\* transaction, nil otherwise.
StubRet(op, t, arg) ==
    Ret(op, t, arg, Nil, FALSE, IF tx[t].done THEN ErrTxDone ELSE NoErr)

Snatch(t, u, i) ==
    /\ ~panicked
    /\ tx[t].begun
    /\ last' = StubRet("Snatch", t, <<u, i>>)
    /\ UNCHANGED <<store, idle, tx, panicked, out>>

\* Unprune without the check of done.
UnpruneNoCheck(t, i) ==
    /\ ~panicked
    /\ tx[t].begun
    /\ LET s == TxSend(t, UnpruneCmd(i)) IN
         /\ Room(t)
         /\ last' = Ret("Unprune", t, <<i>>, Nil, FALSE, s.err)
         /\ tx' = [tx EXCEPT ![t].conn = s.conn]
    /\ UNCHANGED <<store, idle, panicked, out>>

Unprune(t, i) ==
    /\ ~panicked
    /\ tx[t].begun
    /\ IF tx[t].done
       THEN /\ last' = Ret("Unprune", t, <<i>>, Nil, FALSE, ErrTxDone)
            /\ UNCHANGED tx
       ELSE LET s == TxSend(t, UnpruneCmd(i)) IN
            /\ Room(t)
            /\ last' = Ret("Unprune", t, <<i>>, Nil, FALSE, s.err)
            /\ tx' = [tx EXCEPT ![t].conn = s.conn]
    /\ UNCHANGED <<store, idle, panicked, out>>

\* NewLeecher that adds the peer to the leecher set and submits the
\* transaction at once instead of leaving that to Commit.
NewLeecherSubmits(t, i, p) ==
    /\ ~panicked
    /\ tx[t].begun
    /\ IF tx[t].done
       THEN /\ last' = Ret("NewLeecher", t, <<i, p>>, Nil, FALSE, ErrTxDone)
            /\ UNCHANGED <<store, tx>>
       ELSE LET s == TxSend(t, Cmd(<<"SADD">>, <<LeechersKey(i), p>>))
                d == IF s.err # NoErr THEN [conn |-> s.conn, store |-> store, err |-> s.err]
                     ELSE Do(s.conn, store, EXEC, "ok")
            IN  /\ Room(t)
                /\ last' = Ret("NewLeecher", t, <<i, p>>, Nil, FALSE, d.err)
                /\ tx' = [tx EXCEPT ![t].conn = d.conn]
                /\ store' = d.store
    /\ UNCHANGED <<idle, panicked, out>>

NewLeecher(t, i, p) ==
    /\ ~panicked
    /\ tx[t].begun
    /\ last' = StubRet("NewLeecher", t, <<i, p>>)
    /\ UNCHANGED <<store, idle, tx, panicked, out>>

RmLeecher(t, i, p) ==
    /\ ~panicked
    /\ tx[t].begun
    /\ last' = StubRet("RmLeecher", t, <<i, p>>)
    /\ UNCHANGED <<store, idle, tx, panicked, out>>

\* NewSeeder that adds the peer to the seeder set and leaves the leecher set.
NewSeederAddOnly(t, i, p) ==
    /\ ~panicked
    /\ tx[t].begun
    /\ IF tx[t].done
       THEN /\ last' = Ret("NewSeeder", t, <<i, p>>, Nil, FALSE, ErrTxDone)
            /\ UNCHANGED tx
       ELSE LET s == TxSend(t, Cmd(<<"SADD">>, <<SeedersKey(i), p>>)) IN
            /\ Room(t)
            /\ last' = Ret("NewSeeder", t, <<i, p>>, Nil, FALSE, s.err)
            /\ tx' = [tx EXCEPT ![t].conn = s.conn]
    /\ UNCHANGED <<store, idle, panicked, out>>

NewSeeder(t, i, p) ==
    /\ ~panicked
    /\ tx[t].begun
    /\ last' = StubRet("NewSeeder", t, <<i, p>>)
    /\ UNCHANGED <<store, idle, tx, panicked, out>>

\* RmSeeder that reports a peer that is not in the seeder set as an error.
RmSeederStrict(t, i, p) ==
    /\ ~panicked
    /\ tx[t].begun
    /\ last' = Ret("RmSeeder", t, <<i, p>>, Nil, FALSE,
                   IF tx[t].done THEN ErrTxDone
                   ELSE IF p \in store.set[SeedersKey(i)] THEN NoErr ELSE ErrReply)
    /\ UNCHANGED <<store, idle, tx, panicked, out>>

RmSeeder(t, i, p) ==
    /\ ~panicked
    /\ tx[t].begun
    /\ last' = StubRet("RmSeeder", t, <<i, p>>)
    /\ UNCHANGED <<store, idle, tx, panicked, out>>

\* IncrementSlots that writes one more slot in use without comparing it with
\* the user's total.
IncrementSlotsUnchecked(t, u) ==
    /\ ~panicked
    /\ tx[t].begun
    /\ IF tx[t].done
       THEN /\ last' = Ret("IncrementSlots", t, <<u>>, Nil, FALSE, ErrTxDone)
            /\ UNCHANGED tx
       ELSE LET used == ScanInt(store.hash[UserKey(u)], "SlotsUsed")
                s == TxSend(t, Cmd(<<"HSET">>, <<UserKey(u), "SlotsUsed",
                                                IF used = 0 THEN "1" ELSE "2">>))
            IN  /\ Room(t)
                /\ last' = Ret("IncrementSlots", t, <<u>>, Nil, FALSE, s.err)
                /\ tx' = [tx EXCEPT ![t].conn = s.conn]
    /\ UNCHANGED <<store, idle, panicked, out>>

IncrementSlots(t, u) ==
    /\ ~panicked
    /\ tx[t].begun
    /\ last' = StubRet("IncrementSlots", t, <<u>>)
    /\ UNCHANGED <<store, idle, tx, panicked, out>>

DecrementSlots(t, u) ==
    /\ ~panicked
    /\ tx[t].begun
    /\ last' = StubRet("DecrementSlots", t, <<u>>)
    /\ UNCHANGED <<store, idle, tx, panicked, out>>

Next ==
    \/ \E u \in Passkeys : FindUser(u)
    \/ \E i \in Infohashes : FindTorrent(i)
    \/ \E p \in PeerIDs : ClientWhitelisted(p)
    \/ \E t \in TxIds : Begin(t)
    \/ \E t \in TxIds : Commit(t)
    \/ \E t \in TxIds : Rollback(t)
    \/ \E t \in TxIds, u \in Passkeys, i \in Infohashes : Snatch(t, u, i)
    \/ \E t \in TxIds, i \in Infohashes : Unprune(t, i)
    \/ \E t \in TxIds, i \in Infohashes, p \in PeerIDs : NewLeecher(t, i, p)
    \/ \E t \in TxIds, i \in Infohashes, p \in PeerIDs : RmLeecher(t, i, p)
    \/ \E t \in TxIds, i \in Infohashes, p \in PeerIDs : NewSeeder(t, i, p)
    \/ \E t \in TxIds, i \in Infohashes, p \in PeerIDs : RmSeeder(t, i, p)
    \/ \E t \in TxIds, u \in Passkeys : IncrementSlots(t, u)
    \/ \E t \in TxIds, u \in Passkeys : DecrementSlots(t, u)
    \/ \E i \in 1..MaxIdle : Drop(i)

Spec == Init /\ [][Next]_vars

----------------------------------------------------------------------------
(* Claims                                                                  *)

StoreErrors == {ErrIO, ErrReply}

\* The last call was a Commit of an open transaction whose EXEC failed.
CommitFailed(l) == l.op = "Commit" /\ l.err \in StoreErrors

\* C1: a Commit whose batch submission fails returns the store's error and
\* applies none of the buffered operations: the step of the failed Commit
\* leaves every record, swarm and whitelist entry of the store as it was.
C1_FailedCommitAppliesNothing ==
    [][\A t \in TxIds :
         (tx[t].begun /\ ~tx[t].done /\ last'.op = "Commit" /\ last'.tx = t
          /\ last'.err # NoErr)
         => (last'.err \in StoreErrors /\ store' = store)]_vars

\* A Commit has failed on a transaction that had a mutation buffered.
C1_Witness == CommitFailed(last) /\ last.prev.op = "Unprune"

\* C2: after a Commit that returned the store's error, the transaction no
\* longer holds the connection that Begin acquired.
C2_FailedCommitReleases == CommitFailed(last) => ~tx[last.tx].held

\* C3: Commit and Rollback on a closed transaction return ErrTxDone and
\* change nothing: not the store, not the transaction, not the pool.
C3_ClosedTxCloseCalls ==
    [][\A t \in TxIds :
         (tx[t].done /\ last'.tx = t /\ last'.op \in {"Commit", "Rollback"})
         => (last'.err = ErrTxDone /\ store' = store /\ tx' = tx /\ idle' = idle
             /\ ~panicked')]_vars

\* A Commit or Rollback has been called on a closed transaction.
C3_Witness ==
    /\ last.op \in {"Commit", "Rollback"}
    /\ last.err = ErrTxDone
    /\ tx[last.tx].done

\* C4: every mutation called on a closed transaction returns ErrTxDone and
\* buffers or sends nothing: the transaction's connection, the pool and the
\* store stay as they were.
C4_ClosedTxMutations ==
    [][\A t \in TxIds :
         (tx[t].done /\ last'.tx = t /\ last'.op \in MutationOps)
         => (last'.err = ErrTxDone /\ tx' = tx /\ idle' = idle /\ store' = store)]_vars

\* A mutation has been called on a closed transaction.
C4_Witness ==
    /\ last.op \in MutationOps
    /\ last.err = ErrTxDone
    /\ tx[last.tx].done

\* The state of the transaction in slot t of transactions txs.
TxState(txs, t) ==
    IF ~txs[t].begun THEN "None" ELSE IF txs[t].done THEN "Closed" ELSE "Open"

\* C5: a transaction is Open after a successful Begin; it leaves Open only by
\* a Commit or a Rollback that returns nil, which makes it terminal; and a
\* terminal transaction stays terminal whatever is called on it (its slot
\* changes only when a later Begin puts a new transaction there).
C5_TxStateMachine ==
    [][\A t \in TxIds :
         LET closing == /\ last'.tx = t
                        /\ last'.op \in {"Commit", "Rollback"}
                        /\ last'.err = NoErr
             begin == last'.tx = t /\ last'.op = "Begin" /\ last'.err = NoErr
         IN  /\ begin => TxState(tx', t) = "Open"
             /\ (TxState(tx, t) = "None" /\ TxState(tx', t) # "None") => begin
             /\ (TxState(tx, t) = "Open" /\ TxState(tx', t) # "Open") => closing
             /\ (TxState(tx, t) = "Open" /\ closing) => TxState(tx', t) = "Closed"
             /\ (TxState(tx, t) = "Closed" /\ ~begin) => TxState(tx', t) = "Closed"]_vars

\* A transaction has been closed by a Commit that returned nil.
C5_Witness ==
    /\ last.op = "Commit"
    /\ last.err = NoErr
    /\ TxState(tx, last.tx) = "Closed"

\* The record under a user's key is well formed.
ValidUser(u) == store.hash[UserKey(u)] # {} /\ ~ScanFails(store.hash[UserKey(u)], UserIntFields)

\* The three results a lookup may return for the record rec: absent, error,
\* found.
ThreeState(l, rec) ==
    \/ l.val = Nil /\ ~l.found /\ l.err = NoErr /\ rec = {}
    \/ l.val = Nil /\ ~l.found /\ l.err # NoErr
    \/ l.val # Nil /\ l.found /\ l.err = NoErr /\ rec # {}

\* C6: FindUser returns (nil, false, nil) for an absent record, (nil, false,
\* error) for a read failure or a malformed record and (user, true, nil) on
\* success; found is true only with a user and a nil error.
C6_FindUserThreeState ==
    last.op = "FindUser" => ThreeState(last, store.hash[UserKey(last.arg[1])])

\* C7: FindTorrent returns (nil, false, nil) for an absent record, (nil,
\* false, error) for a read failure or a malformed record and (torrent, true,
\* nil) on success; found is never true together with an error.
C7_FindTorrentThreeState ==
    last.op = "FindTorrent" => ThreeState(last, store.hash[TorrentKey(last.arg[1])])

\* C8: a transaction that calls NewLeecher(T, P) while P is a seeder of T and
\* then commits leaves P a leecher of T and no seeder of T; likewise for
\* NewSeeder(T, P) while P is a leecher.
C8_NewPeerMoves ==
    [][\A t \in TxIds :
         (/\ last.op \in {"NewLeecher", "NewSeeder"}
          /\ last.tx = t
          /\ last.err = NoErr
          /\ last'.op = "Commit"
          /\ last'.tx = t
          /\ last'.err = NoErr)
         => LET i == last.arg[1]
                p == last.arg[2]
                to == IF last.op = "NewLeecher" THEN LeechersKey(i) ELSE SeedersKey(i)
                from == IF last.op = "NewLeecher" THEN SeedersKey(i) ELSE LeechersKey(i)
            IN  p \in store.set[from] => (p \in store'.set[to] /\ p \notin store'.set[from])]_vars

\* C9: no peer is at once in the seeder set and in the leecher set of a
\* torrent.
C9_SeederLeecherDisjoint ==
    \A i \in Infohashes : store.set[SeedersKey(i)] \cap store.set[LeechersKey(i)] = {}

\* A transaction has called NewSeeder(T, P) for a leecher P of T and has been
\* committed.
C9_Witness ==
    /\ last.op = "Commit"
    /\ last.err = NoErr
    /\ last.prev.op = "NewSeeder"
    /\ last.prev.arg[2] \in store.set[LeechersKey(last.prev.arg[1])]

ErrSlotBounds == "SlotBoundsError"

\* C10: IncrementSlots on an open transaction for a user whose slots in use
\* equal the total, and DecrementSlots for a user with no slot in use, fail
\* with SlotBoundsError.
C10_SlotBoundsRejected ==
    \A t \in TxIds :
        (/\ last.tx = t
         /\ tx[t].begun
         /\ ~tx[t].done
         /\ last.op \in {"IncrementSlots", "DecrementSlots"}
         /\ ValidUser(last.arg[1]))
        => LET u == ScanUser(store.hash[UserKey(last.arg[1])])
           IN  /\ (last.op = "IncrementSlots" /\ u.SlotsUsed = u.Slots)
                    => last.err = ErrSlotBounds
               /\ (last.op = "DecrementSlots" /\ u.SlotsUsed = 0)
                    => last.err = ErrSlotBounds

Batch(c) == SelectSeq(c.pending, LAMBDA q : Known(q) /\ q \notin {MULTI, EXEC, DISCARD})

C13_RollbackDiscards ==
    [][\A t \in TxIds :
         (tx[t].begun /\ ~tx[t].done /\ last'.op = "Rollback" /\ last'.tx = t)
         => /\ last'.err = NoErr
            /\ tx'[t].done
            /\ ~tx'[t].held
            /\ store' = store
            /\ tx'[t].conn.pending = <<>>
            /\ \A n \in 1..Len(idle') : idle'[n].pending = <<>> /\ ~idle'[n].multi]_vars

\* An open transaction has been rolled back right after an Unprune that it
\* had buffered.
C13_Witness ==
    /\ last.op = "Rollback"
    /\ last.err = NoErr
    /\ last.prev.op = "Unprune"
    /\ tx[last.tx].done

\* C14: a Commit that follows Unprune(T) on an open transaction, and that no
\* I/O failure interrupts, succeeds and sets Status in the record of T to 0;
\* no other field and no other key changes.
C14_UnpruneClearsStatus ==
    [][(/\ last.op = "Unprune"
        /\ last.err = NoErr
        /\ last'.op = "Commit"
        /\ last'.tx = last.tx
        /\ last'.err # ErrIO)
       => /\ last'.err = NoErr
          /\ store' = [store EXCEPT !.hash[TorrentKey(last.arg[1])] = HSet(@, "Status", "0")]]_vars

\* The set that the removal op takes a peer of torrent i from.
RmKey(op, i) == IF op = "RmSeeder" THEN SeedersKey(i) ELSE LeechersKey(i)

\* C15: RmSeeder and RmLeecher on an open transaction, for a peer that is
\* not in the named set, return nil; and the Commit that follows leaves the
\* seeder and leecher sets as they were.
C15_RmAbsentPeerIsNoOp ==
    [][\A t \in TxIds :
         /\ (/\ tx[t].begun
             /\ ~tx[t].done
             /\ last'.tx = t
             /\ last'.op \in {"RmSeeder", "RmLeecher"}
             /\ last'.arg[2] \notin store.set[RmKey(last'.op, last'.arg[1])])
            => last'.err = NoErr
         /\ (/\ last.tx = t
             /\ last.op \in {"RmSeeder", "RmLeecher"}
             /\ last.err = NoErr
             /\ last.arg[2] \notin store.set[RmKey(last.op, last.arg[1])]
             /\ last'.tx = t
             /\ last'.op = "Commit"
             /\ last'.err = NoErr)
            => store'.set = store.set]_vars

\* A transaction has called RmSeeder for a peer that is no seeder of the
\* torrent and has been committed.
C15_Witness ==
    /\ last.op = "Commit"
    /\ last.err = NoErr
    /\ last.prev.op = "RmSeeder"
    /\ last.prev.arg[2] \notin store.set[SeedersKey(last.prev.arg[1])]

\* C16: ClientWhitelisted returns (true, nil) when the key of the peer ID
\* exists and (false, nil) when it does not; it returns an error only when
\* the store fails (no connection, or an I/O failure), and then with false.
C16_WhitelistedIffKeyExists ==
    last.op = "ClientWhitelisted" =>
        IF last.err = NoErr
        THEN last.found = store.str[WhitelistKey(last.arg[1])]
        ELSE ~last.found /\ last.err \in {ErrIO, ErrDial}

\* ClientWhitelisted has returned (false, nil) for a peer ID whose key does
\* not exist.
C16_Witness ==
    /\ last.op = "ClientWhitelisted"
    /\ last.err = NoErr
    /\ ~last.found
    /\ ~store.str[WhitelistKey(last.arg[1])]

\* C17: a connection is checked out of the pool only while an open
\* transaction owns it: after every call, the connections checked out are
\* those held by the transactions that are open.  So a lookup has released
\* its connection on every outcome, and a Begin that returned an error has
\* left none checked out.
C17_NoConnectionWithoutOwner ==
    /\ out = Cardinality({t \in TxIds : tx[t].held})
    /\ \A t \in TxIds : tx[t].held => (tx[t].begun /\ ~tx[t].done)

\* A lookup has failed with an I/O error on a connection it had acquired,
\* while a transaction holds another connection.
C17_Witness ==
    /\ last.op \in {"FindUser", "FindTorrent", "ClientWhitelisted"}
    /\ last.err = ErrIO
    /\ out = 1

\* C18: a connection that the pool hands out has passed the PING of
\* TestOnBorrow if it was idle: no transaction holds a connection that its
\* peer had dropped while it sat idle; such a connection is closed and a
\* freshly dialed one is used.
C18_NoDeadConnectionHandedOut ==
    \A t \in TxIds : tx[t].held => ~tx[t].conn.dead

\* Begin has obtained its connection from a pool whose idle connection
\* failed the probe: the transaction holds a live connection and the dead
\* one is gone from the idle list.
C18_Witness ==
    /\ last.op = "Begin"
    /\ last.err = NoErr
    /\ last.arg = <<"probe failed">>
    /\ tx[last.tx].held
    /\ ~tx[last.tx].conn.dead
    /\ idle = <<>>

\* C19: whatever sequence of calls is made on a transaction, close() is
\* never entered with done already true: the panic "transaction closed
\* twice" does not happen, and a closed transaction holds no connection that
\* a second close could close again.
C19_CloseAtMostOnce ==
    /\ ~panicked
    /\ \A t \in TxIds : tx[t].done => ~tx[t].held

\* Rollback has been called on a transaction that was already closed, and
\* has returned without reaching close().
C19_Witness ==
    /\ last.op = "Rollback"
    /\ last.err = ErrTxDone
    /\ tx[last.tx].done
    /\ ~panicked

\* What a Do("EXEC") on connection c writes to the server: nothing on a
\* connection in the fatal-error state, else the buffer and EXEC.
Submitted(c) == IF c.err THEN <<>> ELSE Append(c.pending, EXEC)

\* A batch is among the commands cmds: they open with MULTI.
HoldsBatch(cmds) == cmds # <<>> /\ Head(cmds) = MULTI

\* The part of C20 about the state after a failed Commit and about Rollback:
\* the transaction is still open, and a Rollback that follows returns nil,
\* marks it closed and releases the connection.
StillOpenAndRollback(t) ==
    /\ ~tx[t].done
    /\ (last'.op = "Rollback" /\ last'.tx = t)
         => (last'.err = NoErr /\ tx'[t].done /\ ~tx'[t].held)

\* C20: after a Commit that failed with a store error the transaction is
\* still open; a Rollback that follows returns nil, marks it closed and
\* releases the connection; a Commit that follows does not return ErrTxDone
\* but submits the batch again.
C20_FailedCommitResubmits ==
    [][\A t \in TxIds :
         (CommitFailed(last) /\ last.tx = t)
         => /\ StillOpenAndRollback(t)
            /\ (last'.op = "Commit" /\ last'.tx = t)
                 => (last'.err # ErrTxDone /\ HoldsBatch(Submitted(tx[t].conn)))]_vars

\* C20, amended: after a Commit that failed with a store error the
\* transaction is still open; a Rollback that follows returns nil, marks it
\* closed and releases the connection; a Commit that follows does not return
\* ErrTxDone: it calls EXEC again, on a connection that no longer holds the
\* batch, so it fails with a store error again, applies nothing and leaves
\* the transaction open.
C20_FailedCommitLeavesOpen ==
    [][\A t \in TxIds :
         (CommitFailed(last) /\ last.tx = t)
         => /\ StillOpenAndRollback(t)
            /\ (last'.op = "Commit" /\ last'.tx = t)
                 => /\ last'.err \in StoreErrors
                    /\ ~HoldsBatch(Submitted(tx[t].conn))
                    /\ store' = store
                    /\ ~tx'[t].done
                    /\ tx'[t].held]_vars

\* Commit has been called again on a transaction whose Commit had just
\* failed, and has failed again; the transaction is still open.
C20_Witness ==
    /\ last.op = "Commit"
    /\ last.prev.op = "Commit"
    /\ last.err \in StoreErrors
    /\ ~tx[last.tx].done
    /\ tx[last.tx].held

====
